---- MODULE Spec2Model ----
(***************************************************************************)
(* TokenManager (session credential lifecycle manager): token validator,   *)
(* refresh operation with backoff, failure handler, timers, teardown.      *)
(* Time is in milliseconds; a timer may fire at any moment at or after its *)
(* due time, never before it.                                              *)
(***************************************************************************)
EXTENDS Integers, Sequences, FiniteSets, Bags, TLC

VARIABLES
    now,                \* Date.now(), milliseconds
    timers,             \* the browser's table of active timers
    refreshTimer,       \* this.refreshTimer (0 is null)
    autoSaveTimer,      \* this.autoSaveTimer (0 is null)
    failureTimeout,     \* this._failureTimeout (0 is null)
    isHandlingFailure,  \* this._isHandlingFailure
    tokenRetryCount,    \* this._tokenRetryCount
    tokenStore,         \* useTokenStore state
    procs,              \* suspended async invocations (a bag)
    page,               \* "alive", or how the page was left
    toasts,             \* session-expired notifications surfaced so far
    signOuts,           \* signOut() calls issued so far
    events,             \* outside events so far (bounds the model)
    disturbed,          \* cleanup() or a restart ran during failure handling
    editor,             \* useEditorStore state: canvas and designId
    storage,            \* localStorage: the backup stored under each design's key
    last,               \* the last step: operation, calls made, value returned
    lastExecTime,       \* throttle: lastExecTime of each installed wrapper of handleUserActivity
    throttleTimeout,    \* throttle: timeoutId of each installed wrapper (0 is undefined)
    listeners,          \* sets of document/window listeners installed so far
    initializationAttempts, \* this._initializationAttempts
    criticals,          \* handleCriticalFailure() runs so far
    systemToasts,       \* system-error notifications surfaced so far
    handledAt,          \* when the wrapper last ran handleUserActivity (none: <<>>)
    vInput,             \* validator check: the candidate credential
    vResult             \* validator check: the verdict

vars == <<now, timers, refreshTimer, autoSaveTimer, failureTimeout,
          isHandlingFailure, tokenRetryCount, tokenStore, procs, page,
          toasts, signOuts, events, disturbed, editor, storage, last,
          lastExecTime, throttleTimeout, listeners, initializationAttempts,
          criticals, systemToasts, handledAt, vInput, vResult>>

----------------------------------------------------------------------------
(* Program constants *)

MaxTokenRetries == 3
MaxInitAttempts == 3
BackoffDelay == 1000
BufferTime == 300
ActivityThreshold == 600
RefreshInterval == 1200000
AutoSaveInterval == 30000
GraceDelay == 3000
ThrottleDelay == 1000
CriticalReloadDelay == 5000

(* Bounds of the model *)

MaxProcs == 2
MaxRetryTimers == 2
MaxEvents == 3
MaxLen == 5
MaxScenarioEvents == 5
\* outside events in a run from construction
MaxInitEvents == 4

----------------------------------------------------------------------------
(* Credentials.  A JS value handed to the validator is a record: its type  *)
(* and, for a string, its characters.  A character stands for one base64   *)
(* chunk; "." separates segments.                                          *)

Str(chars) == [t |-> "string", s |-> chars]
NullValue == [t |-> "null", s |-> <<>>]
NumberValue == [t |-> "number", s |-> <<>>]

\* What atob yields for each base64 chunk; a chunk outside the table
\* ("-" and "_" before replacement, "!") makes atob throw.
ChunkText ==
    [c \in {"A", "B", "C", "D", "E", "S", "I", "Z", "Y", "N", "h", "s", "+", "/"} |->
        CASE c = "A" -> "{sub,iat,exp:5000}"
          [] c = "B" -> "{sub,iat,exp:100}"
          [] c = "C" -> "{sub,iat,exp:500}"
          [] c = "D" -> "{sub,iat,exp:600}"
          [] c = "E" -> "{sub,iat}"
          [] c = "S" -> "{iat,exp}"
          [] c = "I" -> "{sub,exp}"
          [] c = "Z" -> "{sub,iat,exp:0}"
          [] c = "Y" -> "{sub,iat:0,exp}"
          [] c = "N" -> "null"
          [] c = "h" -> "hdr"
          [] c = "s" -> "sig"
          [] c = "+" -> "plus"
          [] c = "/" -> "slash"]

\* JSON.parse of a text that is one JSON document.
JsonValue ==
    [x \in {"{sub,iat,exp:5000}", "{sub,iat,exp:100}", "{sub,iat,exp:500}",
            "{sub,iat,exp:600}", "{sub,iat}", "{iat,exp}", "{sub,exp}", "{sub,iat,exp:0}",
            "{sub,iat:0,exp}", "null"} |->
        CASE x = "{sub,iat,exp:5000}" ->
                [kind |-> "object", has |-> {"sub", "iat", "exp"}, iat |-> 1, exp |-> 5000]
          [] x = "{sub,iat,exp:100}" ->
                [kind |-> "object", has |-> {"sub", "iat", "exp"}, iat |-> 1, exp |-> 100]
          [] x = "{sub,iat,exp:500}" ->
                [kind |-> "object", has |-> {"sub", "iat", "exp"}, iat |-> 1, exp |-> 500]
          [] x = "{sub,iat,exp:600}" ->
                [kind |-> "object", has |-> {"sub", "iat", "exp"}, iat |-> 1, exp |-> 600]
          [] x = "{sub,iat}" ->
                [kind |-> "object", has |-> {"sub", "iat"}, iat |-> 1, exp |-> 0]
          [] x = "{iat,exp}" ->
                [kind |-> "object", has |-> {"iat", "exp"}, iat |-> 1, exp |-> 5000]
          [] x = "{sub,exp}" ->
                [kind |-> "object", has |-> {"sub", "exp"}, iat |-> 0, exp |-> 5000]
          [] x = "{sub,iat,exp:0}" ->
                [kind |-> "object", has |-> {"sub", "iat", "exp"}, iat |-> 1, exp |-> 0]
          [] x = "{sub,iat:0,exp}" ->
                [kind |-> "object", has |-> {"sub", "iat", "exp"}, iat |-> 0, exp |-> 5000]
          [] x = "null" ->
                [kind |-> "null", has |-> {}, iat |-> 0, exp |-> 0]]

EmptyObject == [kind |-> "object", has |-> {}, iat |-> 0, exp |-> 0]
Thrown == [kind |-> "thrown", has |-> {}, iat |-> 0, exp |-> 0]

\* String.prototype.split(".")
RECURSIVE Split(_)
Split(s) ==
    IF s = <<>> THEN << <<>> >>
    ELSE LET r == Split(Tail(s)) IN
         IF Head(s) = "." THEN << <<>> >> \o r
         ELSE << <<Head(s)>> \o Head(r) >> \o Tail(r)

\* .replace(/-/g, "+").replace(/_/g, "/")
Base64UrlToBase64(seg) ==
    [i \in 1..Len(seg) |->
        IF seg[i] = "-" THEN "+" ELSE IF seg[i] = "_" THEN "/" ELSE seg[i]]

\* JSON.parse(atob(segment with the url characters replaced)); Thrown when
\* atob or JSON.parse throws.
ParsePayload(seg) ==
    LET b == Base64UrlToBase64(seg) IN
    IF \E i \in 1..Len(b) : b[i] \notin DOMAIN ChunkText THEN Thrown
    ELSE LET text == [i \in 1..Len(b) |-> ChunkText[b[i]]] IN
         IF Len(text) = 1 /\ text[1] \in DOMAIN JsonValue
         THEN JsonValue[text[1]] ELSE Thrown

\* faulty variant: presence alone, whatever the value
TruthyIfPresent(payload, f) == f \in payload.has

\* Truthiness of payload.<field>: present and neither 0 nor "".
Truthy(payload, f) ==
    /\ f \in payload.has
    /\ (f = "exp" => payload.exp # 0)
    /\ (f = "iat" => payload.iat # 0)

\* faulty variant: more than three segments are let through
validateTokenStructureAtLeastThree(token) ==
    IF token.t # "string" \/ token.s = <<>> THEN FALSE
    ELSE LET parts == Split(token.s) IN
         IF Len(parts) < 3 THEN FALSE
         ELSE LET payload == ParsePayload(parts[2]) IN
              IF payload.kind # "object" THEN FALSE
              ELSE Truthy(payload, "sub") /\ Truthy(payload, "exp")
                   /\ Truthy(payload, "iat")

\* validateTokenStructure: the truthiness of what it returns.
validateTokenStructure(token) ==
    IF token.t # "string" \/ token.s = <<>> THEN FALSE
    ELSE LET parts == Split(token.s) IN
         IF Len(parts) # 3 THEN FALSE
         ELSE LET payload == ParsePayload(parts[2]) IN
              IF payload.kind # "object" THEN FALSE
              ELSE Truthy(payload, "sub") /\ Truthy(payload, "exp")
                   /\ Truthy(payload, "iat")

\* decodeToken: the payload, {} when decoding throws.
decodeToken(token) ==
    IF token.t # "string" THEN EmptyObject
    ELSE LET parts == Split(token.s) IN
         IF Len(parts) < 2 THEN EmptyObject
         ELSE LET payload == ParsePayload(parts[2]) IN
              IF payload.kind = "thrown" THEN EmptyObject ELSE payload

----------------------------------------------------------------------------
(* The provider's credentials *)

TokLong == Str(<<"h", ".", "A", ".", "s">>)
TokShort == Str(<<"h", ".", "B", ".", "s">>)
TokBad == Str(<<"h", ".", "E", ".", "s">>)
TokEdge == Str(<<"h", ".", "D", ".", "s">>)
NoToken == NullValue

SessionTokens == {TokLong, TokShort, TokBad}
Absent == [kind |-> "absent", tok |-> NoToken]
Throws == [kind |-> "throw", tok |-> NoToken]
Settled(ok) == [kind |-> IF ok THEN "ok" ELSE "throw", tok |-> NoToken]
NoArg == [kind |-> "none", tok |-> NoToken]
\* the call repeats the call made just before
Repeated == [kind |-> "repeated", tok |-> NoToken]
\* What a getSession() call can settle with.
SessionOutcomes == {Absent, Throws} \cup {[kind |-> "session", tok |-> t] : t \in SessionTokens}
\* What the getSession() call of handleUserActivity can settle with: the
\* same, and a credential that expires 600 s after the page was loaded.
ActivityOutcomes == SessionOutcomes \cup {[kind |-> "session", tok |-> TokEdge]}

----------------------------------------------------------------------------
(* The state the handlers work on, as one record; calls and ret collect    *)
(* what the running step calls and what refreshToken returns.              *)

Cur ==
    [now |-> now, timers |-> timers, refreshTimer |-> refreshTimer,
     autoSaveTimer |-> autoSaveTimer, failureTimeout |-> failureTimeout,
     isHandlingFailure |-> isHandlingFailure,
     tokenRetryCount |-> tokenRetryCount, tokenStore |-> tokenStore,
     procs |-> procs, page |-> page, toasts |-> toasts, signOuts |-> signOuts,
     storage |-> storage, lastExecTime |-> lastExecTime,
     throttleTimeout |-> throttleTimeout, listeners |-> listeners,
     initializationAttempts |-> initializationAttempts, criticals |-> criticals,
     systemToasts |-> systemToasts, calls |-> <<>>, ret |-> NoToken]

Apply(op, arg, s) ==
    /\ now' = s.now
    /\ timers' = s.timers
    /\ refreshTimer' = s.refreshTimer
    /\ autoSaveTimer' = s.autoSaveTimer
    /\ failureTimeout' = s.failureTimeout
    /\ isHandlingFailure' = s.isHandlingFailure
    /\ tokenRetryCount' = s.tokenRetryCount
    /\ tokenStore' = s.tokenStore
    /\ procs' = s.procs
    /\ page' = s.page
    /\ toasts' = s.toasts
    /\ signOuts' = s.signOuts
    /\ storage' = s.storage
    /\ lastExecTime' = s.lastExecTime
    /\ throttleTimeout' = s.throttleTimeout
    /\ listeners' = s.listeners
    /\ initializationAttempts' = s.initializationAttempts
    /\ criticals' = s.criticals
    /\ systemToasts' = s.systemToasts
    /\ handledAt' = IF /\ op \in {"signal", "throttleFire"}
                       /\ \E i \in 1..Len(s.calls) : s.calls[i] = "handleUserActivity"
                    THEN <<s.now>> ELSE handledAt
    /\ last' = [op |-> op, arg |-> arg, calls |-> s.calls, ret |-> s.ret]

Log(s, c) == [s EXCEPT !.calls = Append(@, c)]
Called(l, c) == \E i \in 1..Len(l.calls) : l.calls[i] = c

Proc(kind, pc, tok) == [kind |-> kind, pc |-> pc, tok |-> tok]
Suspend(s, p) == [s EXCEPT !.procs = @ (+) SetToBag({p})]
Resume(s, p) == [s EXCEPT !.procs = @ (-) SetToBag({p})]
NumProcs(s, kinds) ==
    BagCardinality([p \in {q \in BagToSet(s.procs) : q.kind \in kinds} |-> s.procs[p]])

\* Timer identifiers are never reused by the browser: the model takes the
\* least identifier that no active timer has and no handle field still holds.
NewId(s) ==
    LET used == {t.id : t \in s.timers}
                \cup {s.refreshTimer, s.autoSaveTimer, s.failureTimeout}
                \cup {s.throttleTimeout[k] : k \in 1..Len(s.throttleTimeout)}
    IN CHOOSE i \in 1..(Cardinality(used) + 1) :
          i \notin used /\ \A j \in 1..(i - 1) : j \in used

\* setTimeout / setInterval
SetTimer(s, id, kind, delay) ==
    [s EXCEPT !.timers = @ \cup
        {[id |-> id, kind |-> kind, due |-> s.now + delay, delay |-> delay]}]

\* clearTimeout / clearInterval
ClearTimer(s, id) == [s EXCEPT !.timers = {t \in @ : t.id # id}]

\* faulty variant: the auto-save interval is left running
clearAllTimersKeepingAutoSave(s) ==
    LET s1 == IF s.refreshTimer # 0
              THEN [Log(ClearTimer(s, s.refreshTimer), "clearInterval(refreshTimer)")
                       EXCEPT !.refreshTimer = 0]
              ELSE s
        s3 == IF s1.failureTimeout # 0
              THEN [Log(ClearTimer(s1, s1.failureTimeout), "clearTimeout(_failureTimeout)")
                       EXCEPT !.failureTimeout = 0]
              ELSE s1
    IN s3

\* faulty variant: the forced sign-out is not among the timers cancelled
clearAllTimersKeepingSignOut(s) ==
    LET s1 == IF s.refreshTimer # 0
              THEN [Log(ClearTimer(s, s.refreshTimer), "clearInterval(refreshTimer)")
                       EXCEPT !.refreshTimer = 0]
              ELSE s
        s2 == IF s1.autoSaveTimer # 0
              THEN [Log(ClearTimer(s1, s1.autoSaveTimer), "clearInterval(autoSaveTimer)")
                       EXCEPT !.autoSaveTimer = 0]
              ELSE s1
    IN s2

\* clearAllTimers (activityTimer and warningTimer are never assigned)
clearAllTimers(s) ==
    LET s1 == IF s.refreshTimer # 0
              THEN [Log(ClearTimer(s, s.refreshTimer), "clearInterval(refreshTimer)")
                       EXCEPT !.refreshTimer = 0]
              ELSE s
        s2 == IF s1.autoSaveTimer # 0
              THEN [Log(ClearTimer(s1, s1.autoSaveTimer), "clearInterval(autoSaveTimer)")
                       EXCEPT !.autoSaveTimer = 0]
              ELSE s1
        s3 == IF s2.failureTimeout # 0
              THEN [Log(ClearTimer(s2, s2.failureTimeout), "clearTimeout(_failureTimeout)")
                       EXCEPT !.failureTimeout = 0]
              ELSE s2
    IN s3

\* faulty variant: the handler without its single-flight guard
handleTokenFailureUnguarded(s) ==
    Suspend(clearAllTimers([Log(s, "handleTokenFailure")
                               EXCEPT !.isHandlingFailure = TRUE]),
            Proc("failure", "emergencyCleanup", NoToken))

\* handleTokenFailure, up to its first await
handleTokenFailure(s) ==
    LET s0 == Log(s, "handleTokenFailure") IN
    IF s0.isHandlingFailure THEN Log(s0, "alreadyHandling")
    ELSE Suspend(clearAllTimers([s0 EXCEPT !.isHandlingFailure = TRUE]),
                 Proc("failure", "emergencyCleanup", NoToken))

\* faulty variant: refreshToken without the check of the failure flag
refreshTokenUnguarded(s) ==
    Suspend(Log(Log(s, "refreshToken"), "getSession"),
            Proc("refresh", "getSession", NoToken))

\* refreshToken, up to its first await (forceRefresh is only logged and
\* handed on to the retry)
refreshToken(s) ==
    LET s0 == Log(s, "refreshToken") IN
    IF s0.isHandlingFailure THEN s0
    ELSE Suspend(Log(s0, "getSession"), Proc("refresh", "getSession", NoToken))

\* faulty variant: the exponent taken from the count itself
RetryDelayFromCount(n) == BackoffDelay * 2 ^ n

\* the delay of the retry scheduled at retry count n
RetryDelay(n) == BackoffDelay * 2 ^ (n - 1)

\* faulty variant: a retry is still scheduled when the count has reached the maximum
refreshCatchRetryAtMax(s) ==
    LET s1 == [s EXCEPT !.tokenRetryCount = @ + 1] IN
    IF s1.tokenRetryCount <= MaxTokenRetries
    THEN Log(SetTimer(s1, NewId(s1), "retry", RetryDelay(s1.tokenRetryCount)),
             "setTimeout")
    ELSE handleTokenFailure(s1)

\* faulty variant: the retry is scheduled after cancelling the kept timers
refreshCatchClearing(s) ==
    LET s1 == clearAllTimers([s EXCEPT !.tokenRetryCount = @ + 1]) IN
    IF s1.tokenRetryCount < MaxTokenRetries
    THEN Log(SetTimer(s1, NewId(s1), "retry", RetryDelay(s1.tokenRetryCount)),
             "setTimeout")
    ELSE handleTokenFailure(s1)

\* refreshToken's catch block
refreshCatch(s) ==
    LET s1 == [s EXCEPT !.tokenRetryCount = @ + 1] IN
    IF s1.tokenRetryCount < MaxTokenRetries
    THEN Log(SetTimer(s1, NewId(s1), "retry", RetryDelay(s1.tokenRetryCount)),
             "setTimeout")
    ELSE handleTokenFailure(s1)

\* faulty variant: a credential already in the store is not overwritten
refreshStoreFirstWriterWins(s, tok) ==
    IF s.tokenStore.currentToken # NoToken
    THEN [Log(s, "setCurrentToken") EXCEPT !.tokenRetryCount = 0, !.ret = tok]
    ELSE [Log(s, "setCurrentToken") EXCEPT
            !.tokenStore = [@ EXCEPT !.currentToken = tok, !.lastRefresh = <<s.now>>],
            !.tokenRetryCount = 0,
            !.ret = tok]

\* setCurrentToken, setLastRefresh, reset of the retry count, return
refreshStore(s, tok) ==
    [Log(s, "setCurrentToken") EXCEPT
        !.tokenStore = [@ EXCEPT !.currentToken = tok, !.lastRefresh = <<s.now>>],
        !.tokenRetryCount = 0,
        !.ret = tok]

\* faulty variant: an absent session or an invalid credential is thrown and retried
refreshAfterSessionThrowing(s, o) ==
    IF o.kind = "throw" THEN refreshCatch(s)
    ELSE IF o.kind = "absent" THEN refreshCatch(s)
    ELSE IF ~validateTokenStructure(o.tok) THEN refreshCatch(s)
    ELSE LET tokenPayload == decodeToken(o.tok)
             nowSec == s.now \div 1000
         IN IF Truthy(tokenPayload, "exp") /\ tokenPayload.exp - nowSec < BufferTime
            THEN Suspend(Log(s, "getSession"), Proc("refresh", "getFresh", o.tok))
            ELSE refreshStore(s, o.tok)

\* faulty variant: the failure flag is checked again after the fetch
refreshAfterSessionRechecking(s, o) ==
    IF s.isHandlingFailure THEN s
    ELSE IF o.kind = "throw" THEN refreshCatch(s)
    ELSE IF o.kind = "absent" THEN handleTokenFailure(s)
    ELSE IF ~validateTokenStructure(o.tok) THEN handleTokenFailure(s)
    ELSE LET tokenPayload == decodeToken(o.tok)
             nowSec == s.now \div 1000
         IN IF Truthy(tokenPayload, "exp") /\ tokenPayload.exp - nowSec < BufferTime
            THEN Suspend(Log(s, "getSession"), Proc("refresh", "getFresh", o.tok))
            ELSE refreshStore(s, o.tok)

\* refreshToken after its first getSession() settled
refreshAfterSession(s, o) ==
    IF o.kind = "throw" THEN refreshCatch(s)
    ELSE IF o.kind = "absent" THEN handleTokenFailure(s)
    ELSE IF ~validateTokenStructure(o.tok) THEN handleTokenFailure(s)
    ELSE LET tokenPayload == decodeToken(o.tok)
             nowSec == s.now \div 1000
         IN IF Truthy(tokenPayload, "exp") /\ tokenPayload.exp - nowSec < BufferTime
            THEN Suspend(Log(s, "getSession"), Proc("refresh", "getFresh", o.tok))
            ELSE refreshStore(s, o.tok)

\* refreshToken after the additional getSession() settled
refreshAfterFresh(s, tok, o) ==
    IF o.kind = "throw" THEN refreshCatch(s)
    ELSE IF o.kind = "session" /\ o.tok # tok
    THEN [s EXCEPT !.tokenRetryCount = 0, !.ret = o.tok]
    ELSE refreshStore(s, tok)

\* handleUserActivity, up to its await
handleUserActivity(s) ==
    Suspend(Log(Log(s, "handleUserActivity"), "getSession"),
            Proc("activity", "getSession", NoToken))

\* faulty variant: the refresh is forced at 600 s remaining too
activityAfterSessionAtMost(s, o) ==
    IF o.kind # "session" THEN s
    ELSE LET s1 == [Log(s, "setLastActivity") EXCEPT
                       !.tokenStore = [@ EXCEPT !.lastActivity = <<s.now>>]]
             tokenPayload == decodeToken(o.tok)
             nowSec == s.now \div 1000
         IN IF tokenPayload.kind = "null" THEN s1
            ELSE IF "exp" \in tokenPayload.has
                    /\ tokenPayload.exp - nowSec <= ActivityThreshold
            THEN refreshToken(s1)
            ELSE s1

\* faulty variant: an absent session is escalated to the failure handler
activityAfterSessionEscalating(s, o) ==
    IF o.kind = "absent" THEN handleTokenFailure(s)
    ELSE IF o.kind # "session" THEN s
    ELSE LET s1 == [Log(s, "setLastActivity") EXCEPT
                       !.tokenStore = [@ EXCEPT !.lastActivity = <<s.now>>]]
             tokenPayload == decodeToken(o.tok)
             nowSec == s.now \div 1000
         IN IF tokenPayload.kind = "null" THEN s1
            ELSE IF "exp" \in tokenPayload.has
                    /\ tokenPayload.exp - nowSec < ActivityThreshold
            THEN refreshToken(s1)
            ELSE s1

\* handleUserActivity after getSession() settled
activityAfterSession(s, o) ==
    IF o.kind # "session" THEN s
    ELSE LET s1 == [Log(s, "setLastActivity") EXCEPT
                       !.tokenStore = [@ EXCEPT !.lastActivity = <<s.now>>]]
             tokenPayload == decodeToken(o.tok)
             nowSec == s.now \div 1000
         IN IF tokenPayload.kind = "null" THEN s1
            ELSE IF "exp" \in tokenPayload.has
                    /\ tokenPayload.exp - nowSec < ActivityThreshold
            THEN refreshToken(s1)
            ELSE s1

\* the function throttle(handleUserActivity, 1000) returns, called on an
\* interaction signal; k is the listener set the wrapper was made for
throttled(s, k) ==
    IF s.now - s.lastExecTime[k] > ThrottleDelay
    THEN [handleUserActivity(s) EXCEPT !.lastExecTime[k] = s.now]
    ELSE LET s1 == Log(ClearTimer(s, s.throttleTimeout[k]), "clearTimeout(timeoutId)")
             id == NewId(s1)
         IN [Log(SetTimer(s1, id, "throttle",
                          ThrottleDelay - (s.now - s.lastExecTime[k])), "setTimeout")
                EXCEPT !.throttleTimeout[k] = id]

\* the trailing callback of the throttle
throttleTrailing(s, k) == [handleUserActivity(s) EXCEPT !.lastExecTime[k] = s.now]

\* faulty variant: the listener also refreshes directly
onVisibilityChangeRefreshing(s) == refreshToken(handleUserActivity(s))

\* the "visibilitychange" listener, the tab being visible
onVisibilityChange(s) == handleUserActivity(s)

\* the "online" listener
onOnline(s) == refreshToken(s)

\* an event reaches every listener installed for it, in the order of
\* installation
RECURSIVE dispatchSignal(_, _)
dispatchSignal(s, k) ==
    IF k > s.listeners THEN s ELSE dispatchSignal(throttled(s, k), k + 1)
RECURSIVE dispatchVisibility(_, _)
dispatchVisibility(s, k) ==
    IF k > s.listeners THEN s ELSE dispatchVisibility(onVisibilityChange(s), k + 1)
RECURSIVE dispatchOnline(_, _)
dispatchOnline(s, k) ==
    IF k > s.listeners THEN s ELSE dispatchOnline(onOnline(s), k + 1)

\* Date.now() - 0 when the page is loaded: now counts from that moment, long
\* after the epoch a new wrapper's lastExecTime starts at
NeverExecuted == 0 - 1000000

\* setupActivityListeners: one more set of listeners, with a new throttle
setupActivityListeners(s) ==
    [Log(s, "addEventListener") EXCEPT
        !.listeners = @ + 1,
        !.lastExecTime = Append(@, NeverExecuted),
        !.throttleTimeout = Append(@, 0)]

\* setupAutoSave
setupAutoSave(s) ==
    LET s1 == IF s.autoSaveTimer # 0
              THEN Log(ClearTimer(s, s.autoSaveTimer), "clearInterval(autoSaveTimer)")
              ELSE s
        id == NewId(s1)
    IN [Log(SetTimer(s1, id, "autosave", AutoSaveInterval), "setInterval")
           EXCEPT !.autoSaveTimer = id]

\* safeInitialize, up to its await
safeInitialize(s) ==
    Suspend(setupAutoSave(setupActivityListeners(Log(s, "safeInitialize"))),
            Proc("init", "import", NoToken))

\* handleCriticalFailure; toastOk: toast.error does not throw
handleCriticalFailure(s, toastOk) ==
    LET s1 == clearAllTimers([Log(s, "handleCriticalFailure")
                                 EXCEPT !.criticals = @ + 1])
    IN IF toastOk
       THEN [Log(s1, "toast(System Error)") EXCEPT !.systemToasts = @ + 1]
       ELSE Log(SetTimer(s1, NewId(s1), "reload", CriticalReloadDelay), "setTimeout")

\* faulty variant: every initialization retry waits the base delay
InitRetryDelayConstant(n) == BackoffDelay

\* the delay of the initialization retry scheduled after n failed attempts
InitRetryDelay(n) == BackoffDelay * n

\* faulty variant: the first failed attempt already takes the critical path
initAfterImportGivingUp(s, o, toastOk) ==
    IF o.kind = "ok" THEN s
    ELSE handleCriticalFailure([s EXCEPT !.initializationAttempts = @ + 1], toastOk)

\* safeInitialize after the import of the cleanup collaborators settled and
\* checkForStaleSession() ran; o: one of them threw or not
initAfterImport(s, o, toastOk) ==
    IF o.kind = "ok" THEN s
    ELSE LET s1 == [s EXCEPT !.initializationAttempts = @ + 1] IN
         IF s1.initializationAttempts < MaxInitAttempts
         THEN Log(SetTimer(s1, NewId(s1), "initRetry",
                           InitRetryDelay(s1.initializationAttempts)), "setTimeout")
         ELSE handleCriticalFailure(s1, toastOk)

\* faulty variant: the notification is surfaced but no sign-out is scheduled
failureAfterCleanupNoSignOut(s, o) ==
    IF o.kind = "ok"
    THEN [Log(s, "toast") EXCEPT !.toasts = @ + 1]
    ELSE [Log(s, "reload") EXCEPT !.page = "reloaded"]

\* handleTokenFailure after emergencyAuthCleanup settled
failureAfterCleanup(s, o) ==
    IF o.kind = "ok"
    THEN LET s1 == [Log(s, "toast") EXCEPT !.toasts = @ + 1]
             id == NewId(s1)
         IN [Log(SetTimer(s1, id, "signout", GraceDelay), "setTimeout")
                EXCEPT !.failureTimeout = id]
    ELSE [Log(s, "reload") EXCEPT !.page = "reloaded"]

\* the delayed callback of handleTokenFailure, up to its await
signOutCallback(s) ==
    Suspend([Log(s, "signOut") EXCEPT !.signOuts = @ + 1],
            Proc("signout", "signOut", NoToken))

\* faulty variant: a failed sign-out is left to the caller
afterSignOutRethrowing(s, o) ==
    IF o.kind = "ok" THEN [s EXCEPT !.page = "signedOut"]
    ELSE Log(s, "unhandledrejection")

\* the delayed callback after signOut() settled
afterSignOut(s, o) ==
    IF o.kind = "ok" THEN [s EXCEPT !.page = "signedOut"]
    ELSE [Log(s, "location.href") EXCEPT !.page = "navigated"]

\* faulty variant: the cycle is started without cancelling what is active
startTokenRefreshCycleNoClear(s) ==
    LET s1 == refreshToken(s)
        id == NewId(s1)
    IN [Log(SetTimer(s1, id, "refresh", RefreshInterval), "setInterval")
           EXCEPT !.refreshTimer = id]

\* faulty variant: a restart of the cycle clears the failure flag
startTokenRefreshCycleResetting(s) ==
    LET s1 == refreshToken(clearAllTimers([s EXCEPT !.isHandlingFailure = FALSE]))
        id == NewId(s1)
    IN [Log(SetTimer(s1, id, "refresh", RefreshInterval), "setInterval")
           EXCEPT !.refreshTimer = id]

\* faulty variant: a restart cancels the periodic refresh timer only
startTokenRefreshCycleKeepingOthers(s) ==
    LET s0 == IF s.refreshTimer # 0
              THEN [Log(ClearTimer(s, s.refreshTimer), "clearInterval(refreshTimer)")
                       EXCEPT !.refreshTimer = 0]
              ELSE s
        s1 == refreshToken(s0)
        id == NewId(s1)
    IN [Log(SetTimer(s1, id, "refresh", RefreshInterval), "setInterval")
           EXCEPT !.refreshTimer = id]

\* startTokenRefreshCycle
startTokenRefreshCycle(s) ==
    LET s1 == refreshToken(clearAllTimers(s))
        id == NewId(s1)
    IN [Log(SetTimer(s1, id, "refresh", RefreshInterval), "setInterval")
           EXCEPT !.refreshTimer = id]

\* faulty variant: the failure flag is flipped instead of cleared
cleanupToggling(s) == [clearAllTimers(s) EXCEPT !.isHandlingFailure = ~@]

\* cleanup
cleanup(s) == [clearAllTimers(s) EXCEPT !.isHandlingFailure = FALSE]

\* the browser re-arms an interval timer when it fires
Rearm(s, t) ==
    [s EXCEPT !.timers = (@ \ {t}) \cup {[t EXCEPT !.due = s.now + t.delay]}]

\* faulty variant: the stored backup is not compared, every tick writes
autoSaveWorkAlwaysWriting(s, ed, d) ==
    IF ed.canvas = 0 \/ ed.designId = 0 THEN s
    ELSE IF d = "toJSON" THEN s
    ELSE LET s1 == Log(s, "getItem") IN
         IF d = "getItem" THEN s1
         ELSE IF d = "setItem" THEN Log(s1, "setItem")
         ELSE [Log(s1, "setItem") EXCEPT
                 !.storage[ed.designId] =
                     <<[designId |-> ed.designId, canvasData |-> ed.canvas,
                        timestamp |-> s.now]>>]

\* faulty variant: an error of the storage write is escalated
autoSaveWorkEscalating(s, ed, d) ==
    IF ed.canvas = 0 \/ ed.designId = 0 THEN s
    ELSE IF d = "toJSON" THEN s
    ELSE LET s1 == Log(s, "getItem") IN
         IF d = "getItem" THEN s1
         ELSE LET lastSavedData == s1.storage[ed.designId] IN
              IF lastSavedData # <<>> /\ lastSavedData[1].designId = 0 THEN s1
              ELSE IF lastSavedData # <<>>
                      /\ lastSavedData[1].canvasData = ed.canvas THEN s1
              ELSE IF d = "setItem" THEN handleTokenFailure(Log(s1, "setItem"))
              ELSE [Log(s1, "setItem") EXCEPT
                      !.storage[ed.designId] =
                          <<[designId |-> ed.designId, canvasData |-> ed.canvas,
                             timestamp |-> s.now]>>]

\* faulty variant: a write keeps only the snapshot of the active design
autoSaveWorkPruning(s, ed, d) ==
    IF ed.canvas = 0 \/ ed.designId = 0 THEN s
    ELSE IF d = "toJSON" THEN s
    ELSE LET s1 == Log(s, "getItem") IN
         IF d = "getItem" THEN s1
         ELSE LET lastSavedData == s1.storage[ed.designId] IN
              IF lastSavedData # <<>> /\ lastSavedData[1].designId = 0 THEN s1
              ELSE IF lastSavedData # <<>>
                      /\ lastSavedData[1].canvasData = ed.canvas THEN s1
              ELSE IF d = "setItem" THEN Log(s1, "setItem")
              ELSE [Log(s1, "setItem") EXCEPT
                      !.storage = [k \in DOMAIN s1.storage |->
                          IF k = ed.designId
                          THEN <<[designId |-> ed.designId, canvasData |-> ed.canvas,
                                  timestamp |-> s.now]>>
                          ELSE <<>>]]

\* autoSaveWork; d is the outcome of the serialisation and storage calls
\* ("ok", or the call that throws); a stored backup whose designId is 0
\* stands for a value JSON.parse rejects
autoSaveWork(s, ed, d) ==
    IF ed.canvas = 0 \/ ed.designId = 0 THEN s
    ELSE IF d = "toJSON" THEN s
    ELSE LET s1 == Log(s, "getItem") IN
         IF d = "getItem" THEN s1
         ELSE LET lastSavedData == s1.storage[ed.designId] IN
              IF lastSavedData # <<>> /\ lastSavedData[1].designId = 0 THEN s1
              ELSE IF lastSavedData # <<>>
                      /\ lastSavedData[1].canvasData = ed.canvas THEN s1
              ELSE IF d = "setItem" THEN Log(s1, "setItem")
              ELSE [Log(s1, "setItem") EXCEPT
                      !.storage[ed.designId] =
                          <<[designId |-> ed.designId, canvasData |-> ed.canvas,
                             timestamp |-> s.now]>>]

----------------------------------------------------------------------------
(* The manager after construction: safeInitialize has installed the        *)
(* listeners and the auto-save interval.                                   *)

DesignIds == {1, 2}
CanvasStates == {1, 2}

InitManager ==
    /\ now = 0
    /\ timers = {[id |-> 1, kind |-> "autosave", due |-> AutoSaveInterval,
                  delay |-> AutoSaveInterval]}
    /\ refreshTimer = 0
    /\ autoSaveTimer = 1
    /\ failureTimeout = 0
    /\ isHandlingFailure = FALSE
    /\ tokenRetryCount = 0
    /\ tokenStore = [currentToken |-> NoToken, lastRefresh |-> <<>>,
                     lastActivity |-> <<>>]
    /\ page = "alive"
    /\ toasts = 0
    /\ signOuts = 0
    /\ events = 0
    /\ disturbed = FALSE
    /\ editor = [canvas |-> 0, designId |-> 0]
    /\ last = [op |-> "init", arg |-> NoArg, calls |-> <<>>, ret |-> NoToken]
    /\ lastExecTime = <<NeverExecuted>>
    /\ throttleTimeout = <<0>>
    /\ listeners = 1
    /\ initializationAttempts = 0
    /\ criticals = 0
    /\ systemToasts = 0
    /\ handledAt = <<>>

\* localStorage when the page is loaded: no backup, or under the first
\* design's key a value left there that JSON.parse rejects
NoBackups == [d \in DesignIds |-> <<>>]
InitStorages ==
    {NoBackups,
     [NoBackups EXCEPT ![1] = <<[designId |-> 0, canvasData |-> 0, timestamp |-> 0]>>]}

Init ==
    /\ InitManager
    /\ procs = EmptyBag
    /\ storage \in InitStorages
    /\ vInput = NullValue /\ vResult = "none"

\* the page is still there: a reload or a navigation ends the instance
Alive == page = "alive"
\* an outside event (a call into the manager, a browser event, the clock)
OutsideIn(n) == events < n /\ events' = events + 1 /\ UNCHANGED <<vInput, vResult>>
Outside == OutsideIn(MaxEvents)
\* a step of the manager itself (a timer firing, a promise settling)
Inside == UNCHANGED <<events, disturbed, editor, vInput, vResult>>
Room(s) == s.isHandlingFailure \/ NumProcs(s, {"refresh", "activity"}) < MaxProcs
\* an event reaches all its listeners or none of them
RoomForAll(s) == NumProcs(s, {"refresh", "activity"}) < MaxProcs
Due(kind) == {t \in timers : t.kind = kind /\ t.due <= now}
Pending(kind) == {t \in timers : t.kind = kind}
NumRetryTimers == Cardinality(Pending("retry"))

\* the clock jumps to the next due time among the timers in `among`
TimeJump(among) ==
    \E t \in among :
       /\ t.due > now
       /\ \A u \in among : u.due > now => t.due <= u.due
       /\ Apply("time", NoArg, [Cur EXCEPT !.now = t.due])

AdvanceTimeIn(n) ==
    /\ Alive /\ OutsideIn(n) /\ UNCHANGED <<editor, disturbed>>
    /\ TimeJump(timers)

\* the user opens a design, edits the canvas or closes the design
EditorChangeIn(n) ==
    /\ Alive /\ OutsideIn(n) /\ UNCHANGED disturbed
    /\ \E e \in {[canvas |-> 1, designId |-> d] : d \in DesignIds}
                \cup {[editor EXCEPT !.canvas = c] : c \in CanvasStates}
                \cup {[canvas |-> 0, designId |-> 0]} :
         /\ e # editor
         /\ editor' = e
    /\ Apply("editor", NoArg, Cur)

StartCycleIn(n) ==
    /\ Alive /\ OutsideIn(n) /\ UNCHANGED editor
    /\ Room(Cur)
    /\ disturbed' = (disturbed \/ isHandlingFailure)
    /\ Apply("startTokenRefreshCycle", NoArg, startTokenRefreshCycle(Cur))

CleanupIn(n) ==
    /\ Alive /\ OutsideIn(n) /\ UNCHANGED editor
    /\ disturbed' = (disturbed \/ isHandlingFailure)
    /\ Apply("cleanup", IF last.op = "cleanup" THEN Repeated ELSE NoArg, cleanup(Cur))

\* window "online"
OnlineEventIn(n) ==
    /\ Alive /\ OutsideIn(n) /\ UNCHANGED <<editor, disturbed>>
    /\ isHandlingFailure \/ RoomForAll(Cur)
    /\ Apply("online", NoArg, dispatchOnline(Cur, 1))

\* document "visibilitychange" with the tab visible
VisibilityEventIn(n) ==
    /\ Alive /\ OutsideIn(n) /\ UNCHANGED <<editor, disturbed>>
    /\ RoomForAll(Cur)
    /\ Apply("visibility", NoArg, dispatchVisibility(Cur, 1))

\* an interaction signal (mousedown, mousemove, keypress, scroll,
\* touchstart, click) reaches the throttled handler
InteractionSignalIn(n) ==
    /\ Alive /\ OutsideIn(n) /\ UNCHANGED <<editor, disturbed>>
    /\ RoomForAll(Cur)
    /\ Apply("signal", NoArg, dispatchSignal(Cur, 1))

\* the trailing timer of the throttle fires
ThrottleFire ==
    /\ Alive /\ Inside
    /\ NumProcs(Cur, {"refresh", "activity"}) < MaxProcs
    /\ \E t \in Due("throttle"), k \in 1..listeners :
         /\ throttleTimeout[k] = t.id
         /\ Apply("throttleFire", NoArg, throttleTrailing(ClearTimer(Cur, t.id), k))

\* the refresh interval fires
RefreshTick ==
    /\ Alive /\ Inside /\ Room(Cur)
    /\ \E t \in Due("refresh") :
         Apply("refreshTick", NoArg, refreshToken(Rearm(Cur, t)))

\* a backoff retry fires
RetryFire ==
    /\ Alive /\ Inside /\ Room(Cur)
    /\ \E t \in Due("retry") :
         Apply("retryFire", NoArg, refreshToken(ClearTimer(Cur, t.id)))

\* a getSession() call of refreshToken settles with an outcome in O
RefreshSettleIn(O) ==
    /\ Alive /\ Inside
    /\ \E p \in BagToSet(procs), o \in O :
         /\ p.kind = "refresh"
         /\ (o.kind = "throw" /\ tokenRetryCount + 1 < MaxTokenRetries) =>
               NumRetryTimers < MaxRetryTimers
         /\ IF p.pc = "getSession"
            THEN Apply("refreshSettle", o, refreshAfterSession(Resume(Cur, p), o))
            ELSE Apply("freshSettle", o, refreshAfterFresh(Resume(Cur, p), p.tok, o))

\* the getSession() call of handleUserActivity settles with an outcome in O
ActivitySettleIn(O) ==
    /\ Alive /\ Inside
    /\ \E p \in BagToSet(procs), o \in O :
         /\ p.kind = "activity"
         /\ Apply("activitySettle", o, activityAfterSession(Resume(Cur, p), o))

\* emergencyAuthCleanup (or its import) settles
FailureSettle ==
    /\ Alive /\ Inside
    /\ \E p \in BagToSet(procs), ok \in BOOLEAN :
         /\ p.kind = "failure"
         /\ Apply("failureSettle", Settled(ok),
                  failureAfterCleanup(Resume(Cur, p), Settled(ok)))

\* the forced sign-out timer fires
SignOutFire ==
    /\ Alive /\ Inside
    /\ \E t \in Due("signout") :
         Apply("signOutFire", NoArg, signOutCallback(ClearTimer(Cur, t.id)))

\* signOut() settles
SignOutSettle ==
    /\ Alive /\ Inside
    /\ \E p \in BagToSet(procs), ok \in BOOLEAN :
         /\ p.kind = "signout"
         /\ Apply("signOutSettle", Settled(ok), afterSignOut(Resume(Cur, p), Settled(ok)))

\* the auto-save interval fires
AutoSaveTick ==
    /\ Alive /\ Inside
    /\ \E t \in Due("autosave"), d \in {"ok", "toJSON", "getItem", "setItem"} :
         Apply("autoSaveTick", [kind |-> d, tok |-> NoToken],
               autoSaveWork(Rearm(Cur, t), editor, d))

\* the import in safeInitialize settles and checkForStaleSession() runs
InitSettle ==
    /\ Alive /\ Inside
    /\ \E p \in BagToSet(procs), ok \in BOOLEAN, toastOk \in BOOLEAN :
         /\ p.kind = "init"
         /\ ~toastOk => (~ok /\ initializationAttempts + 1 >= MaxInitAttempts)
         /\ Apply("initSettle", Settled(ok),
                  initAfterImport(Resume(Cur, p), Settled(ok), toastOk))

\* an initialization retry fires
InitRetryFire ==
    /\ Alive /\ Inside
    /\ \E t \in Due("initRetry") :
         Apply("initRetryFire", NoArg, safeInitialize(ClearTimer(Cur, t.id)))

\* the delayed reload of handleCriticalFailure fires
ReloadFire ==
    /\ Alive /\ Inside
    /\ \E t \in Due("reload") :
         Apply("reloadFire", NoArg,
               [Log(ClearTimer(Cur, t.id), "reload") EXCEPT !.page = "reloaded"])

AdvanceTime == AdvanceTimeIn(MaxEvents)
StartCycle == StartCycleIn(MaxEvents)
Cleanup == CleanupIn(MaxEvents)
OnlineEvent == OnlineEventIn(MaxEvents)
VisibilityEvent == VisibilityEventIn(MaxEvents)
EditorChange == EditorChangeIn(MaxEvents)
InteractionSignal == InteractionSignalIn(MaxEvents)
RefreshSettle == RefreshSettleIn(SessionOutcomes)
ActivitySettle == ActivitySettleIn(ActivityOutcomes)

Next ==
    \/ AdvanceTime
    \/ EditorChange
    \/ StartCycle
    \/ Cleanup
    \/ OnlineEvent
    \/ VisibilityEvent
    \/ InteractionSignal
    \/ ThrottleFire
    \/ RefreshTick
    \/ RetryFire
    \/ RefreshSettle
    \/ ActivitySettle
    \/ FailureSettle
    \/ SignOutFire
    \/ SignOutSettle
    \/ AutoSaveTick

Spec == Init /\ [][Next]_vars

----------------------------------------------------------------------------
(* The provider returns no session on every fetch; once the sign-out is    *)
(* scheduled the clock reaches its due time, timers that are due fire and  *)
(* pending promises settle.                                                *)

GraceElapse ==
    /\ Alive /\ Inside
    /\ TimeJump(Pending("signout"))

RefreshSettleAbsent == RefreshSettleIn({Absent})
ActivitySettleAbsent == ActivitySettleIn({Absent})

NextAbsent ==
    \/ AdvanceTime
    \/ EditorChange
    \/ StartCycle
    \/ Cleanup
    \/ OnlineEvent
    \/ VisibilityEvent
    \/ InteractionSignal
    \/ ThrottleFire
    \/ RefreshTick
    \/ RefreshSettleAbsent
    \/ ActivitySettleAbsent
    \/ FailureSettle
    \/ GraceElapse
    \/ SignOutFire
    \/ SignOutSettle
    \/ AutoSaveTick

FairAbsentSpec ==
    /\ Init /\ [][NextAbsent]_vars
    /\ WF_vars(RefreshSettleAbsent)
    /\ WF_vars(FailureSettle)
    /\ WF_vars(GraceElapse)
    /\ WF_vars(SignOutFire)
    /\ WF_vars(SignOutSettle)

----------------------------------------------------------------------------
(* The manager from its construction: the first safeInitialize() has       *)
(* installed the listeners and the auto-save interval and awaits the       *)
(* import of the cleanup collaborators.                                    *)

InitConstructed ==
    /\ InitManager
    /\ procs = SetToBag({Proc("init", "import", NoToken)})
    /\ storage = NoBackups
    /\ vInput = NullValue /\ vResult = "none"

InitOutcomes == {Absent, [kind |-> "session", tok |-> TokLong]}

InitAdvanceTime == AdvanceTimeIn(MaxInitEvents)
InitCleanup == CleanupIn(MaxInitEvents)
InitOnlineEvent == OnlineEventIn(MaxInitEvents)
InitVisibilityEvent == VisibilityEventIn(MaxInitEvents)
InitRefreshSettle == RefreshSettleIn(InitOutcomes)
InitActivitySettle == ActivitySettleIn(InitOutcomes)

NextInit ==
    \/ InitSettle
    \/ InitRetryFire
    \/ ReloadFire
    \/ InitAdvanceTime
    \/ InitCleanup
    \/ InitOnlineEvent
    \/ InitVisibilityEvent
    \/ InitRefreshSettle
    \/ InitActivitySettle
    \/ FailureSettle
    \/ SignOutFire
    \/ SignOutSettle
    \/ AutoSaveTick

InitSpec == InitConstructed /\ [][NextInit]_vars

----------------------------------------------------------------------------
(* The manager from its construction with every outcome of the session     *)
(* provider, for the steps that produce a notification.                    *)

NotifyOutcomes ==
    {Absent, Throws, [kind |-> "session", tok |-> TokBad],
     [kind |-> "session", tok |-> TokLong]}

NotifyRefreshSettle == RefreshSettleIn(NotifyOutcomes)
NotifyActivitySettle == ActivitySettleIn(NotifyOutcomes \ {Throws})

NextNotify ==
    \/ InitSettle
    \/ InitRetryFire
    \/ ReloadFire
    \/ AdvanceTime
    \/ OnlineEvent
    \/ VisibilityEvent
    \/ Cleanup
    \/ RetryFire
    \/ NotifyRefreshSettle
    \/ NotifyActivitySettle
    \/ FailureSettle
    \/ SignOutFire
    \/ SignOutSettle

NotifySpec == InitConstructed /\ [][NextNotify]_vars

----------------------------------------------------------------------------
(* The session provider rejects every fetch.                               *)

ThrowAdvanceTime == AdvanceTimeIn(MaxScenarioEvents)
ThrowOnlineEvent == OnlineEventIn(MaxScenarioEvents)
ThrowCleanup == CleanupIn(MaxScenarioEvents)
RefreshSettleThrows == RefreshSettleIn({Throws})

NextThrowing ==
    \/ ThrowAdvanceTime
    \/ ThrowOnlineEvent
    \/ ThrowCleanup
    \/ RetryFire
    \/ RefreshSettleThrows
    \/ FailureSettle
    \/ SignOutFire
    \/ SignOutSettle

ThrowingSpec == Init /\ [][NextThrowing]_vars

----------------------------------------------------------------------------
(* The auto-save cycle on its own: the user edits, time passes, the        *)
(* interval fires.                                                         *)

SaveEditorChange == EditorChangeIn(MaxScenarioEvents)
SaveAdvanceTime == AdvanceTimeIn(MaxScenarioEvents)

NextAutoSave ==
    \/ SaveEditorChange
    \/ SaveAdvanceTime
    \/ AutoSaveTick

AutoSaveSpec == Init /\ [][NextAutoSave]_vars

----------------------------------------------------------------------------
(* The throttled activity handler on its own: interaction signals arrive,  *)
(* time passes in small steps, the trailing timer fires at or after its    *)
(* due time, the session fetch of a handled occurrence settles.            *)

ThrottleSignal == InteractionSignalIn(MaxScenarioEvents)

ThrottleClock ==
    /\ Alive /\ OutsideIn(MaxScenarioEvents) /\ UNCHANGED <<editor, disturbed>>
    /\ \E d \in {1, 999, 1000} : Apply("time", NoArg, [Cur EXCEPT !.now = @ + d])

NextThrottle ==
    \/ ThrottleSignal
    \/ ThrottleClock
    \/ ThrottleFire
    \/ ActivitySettleAbsent

ThrottleSpec == Init /\ [][NextThrottle]_vars

----------------------------------------------------------------------------
(* The token validator applied to one candidate credential *)

ValidatorAlphabet == {".", "h", "A", "E", "S", "I", "Z", "Y", "N", "-"}
ValidatorStrings(k) == {Str(c) : c \in [1..k -> ValidatorAlphabet]}

InitValidator ==
    /\ InitManager
    /\ procs = EmptyBag
    /\ storage = NoBackups
    /\ \/ vInput \in {NullValue, NumberValue}
       \/ \E k \in 0..MaxLen : vInput \in ValidatorStrings(k)
    /\ vResult = "none"

Validate ==
    /\ vResult = "none"
    /\ vResult' = IF validateTokenStructure(vInput) THEN "true" ELSE "false"
    /\ UNCHANGED <<now, timers, refreshTimer, autoSaveTimer, failureTimeout,
                   isHandlingFailure, tokenRetryCount, tokenStore, procs, page,
                   toasts, signOuts, events, disturbed, editor, storage, last,
                   lastExecTime, throttleTimeout, listeners,
                   initializationAttempts, criticals, systemToasts, handledAt,
                   vInput>>

ValidatorSpec == InitValidator /\ [][Validate]_vars

----------------------------------------------------------------------------
(* Properties *)

FailureSeqs == NumProcs(Cur, {"failure"})
RefreshProcs == NumProcs(Cur, {"refresh"})
NewTimers == timers' \ timers
FiredTimers == timers \ timers'
Quiet == Pending("refresh") = {} /\ Pending("autosave") = {} /\ Pending("retry") = {}
RefreshSettled(l) == l.op \in {"refreshSettle", "freshSettle"}

\* C1: the failure handler is single-flight.  An invocation that finds the
\* Failure-In-Progress flag set changes no timer, handle, flag, store,
\* notification or sign-out and starts no second sequence; and as long as no
\* teardown or restart interferes, at most one sequence (cleanup, then
\* notification, then sign-out) exists and at most one notification is shown.
C1_SingleFlight ==
    /\ [](~disturbed =>
            /\ toasts <= 1
            /\ FailureSeqs + Cardinality(Pending("signout")) + signOuts <= 1)
    /\ [][(Called(last', "handleTokenFailure") /\ isHandlingFailure) =>
            /\ UNCHANGED <<now, timers, refreshTimer, autoSaveTimer,
                           failureTimeout, isHandlingFailure, tokenStore,
                           toasts, signOuts, page, storage>>
            /\ FailureSeqs' = FailureSeqs]_vars

\* C1 witness: a second invocation returned at once while the first sequence
\* is still suspended at emergency cleanup.
C1_Witness ==
    /\ Called(last, "alreadyHandling")
    /\ FailureSeqs = 1
    /\ ~disturbed

\* C2 as claimed: an absent session or an invalid credential increments the
\* retry count, and the failure handler is invoked only with the count at the
\* maximum.
C2_AsClaimed ==
    [][(/\ last'.op = "refreshSettle"
        /\ \/ last'.arg.kind = "absent"
           \/ last'.arg.kind = "session" /\ ~validateTokenStructure(last'.arg.tok)) =>
          /\ tokenRetryCount' = tokenRetryCount + 1
          /\ Called(last', "handleTokenFailure") => tokenRetryCount' >= MaxTokenRetries]_vars

\* C2 amended: a refresh attempt that finds the session absent or the
\* credential structurally invalid invokes the failure handler at once, on
\* that attempt, leaves the retry count as it was, schedules no retry and
\* writes nothing to the token store.
C2_ImmediateFailure ==
    [][(/\ last'.op = "refreshSettle"
        /\ \/ last'.arg.kind = "absent"
           \/ last'.arg.kind = "session" /\ ~validateTokenStructure(last'.arg.tok)) =>
          /\ Called(last', "handleTokenFailure")
          /\ tokenRetryCount' = tokenRetryCount
          /\ Pending("retry")' = Pending("retry")
          /\ tokenStore' = tokenStore]_vars

\* C2 witness: the first attempt found no session and the handler is running
\* with the retry count still 0.
C2_Witness ==
    /\ last.op = "refreshSettle" /\ last.arg.kind = "absent"
    /\ Called(last, "handleTokenFailure") /\ ~Called(last, "alreadyHandling")
    /\ tokenRetryCount = 0
    /\ FailureSeqs = 1

\* C3: a refresh invocation that throws increments the retry count by exactly
\* 1; below 3 it schedules exactly one one-shot retry after
\* base_delay * 2^(n-1) and does not invoke the failure handler; at 3 or above
\* it schedules nothing and invokes the failure handler.
C3_CatchBlock ==
    [][(RefreshSettled(last') /\ last'.arg.kind = "throw") =>
          /\ tokenRetryCount' = tokenRetryCount + 1
          /\ IF tokenRetryCount' < 3
             THEN /\ \E t \in NewTimers :
                        /\ NewTimers = {t}
                        /\ t.kind = "retry"
                        /\ t.delay = 1000 * 2 ^ (tokenRetryCount' - 1)
                        /\ t.due = now + t.delay
                  /\ ~Called(last', "handleTokenFailure")
             ELSE /\ NewTimers = {}
                  /\ Cardinality(timers') <= Cardinality(timers)
                  /\ Called(last', "handleTokenFailure")]_vars

\* C3 witness: the third consecutive throw reached the failure handler.
C3_Witness ==
    /\ RefreshSettled(last) /\ last.arg.kind = "throw"
    /\ tokenRetryCount = 3
    /\ Called(last, "handleTokenFailure") /\ ~Called(last, "alreadyHandling")

\* C5 as claimed: a refresh invocation that returns a credential has written
\* that credential and the current time to the token store and reset the
\* retry count.
C5_AsClaimed ==
    (RefreshSettled(last) /\ last.ret # NoToken) =>
        /\ tokenStore.currentToken = last.ret
        /\ tokenStore.lastRefresh = <<now>>
        /\ tokenRetryCount = 0

\* C6: a refresh invocation that starts with the Failure-In-Progress flag set
\* fetches no session, schedules no retry and leaves the flag, the retry count
\* and the stored credential as they are; invoked on its own (the online
\* event) it leaves the whole state unchanged.
C6_SkipWhileFailing ==
    /\ [][(Called(last', "refreshToken") /\ isHandlingFailure) =>
            /\ ~Called(last', "getSession")
            /\ isHandlingFailure'
            /\ tokenRetryCount' = tokenRetryCount
            /\ tokenStore'.currentToken = tokenStore.currentToken
            /\ tokenStore'.lastRefresh = tokenStore.lastRefresh
            /\ RefreshProcs' <= RefreshProcs
            /\ Pending("retry")' \subseteq Pending("retry")]_vars
    /\ [][(last'.op = "online" /\ isHandlingFailure) =>
            UNCHANGED <<now, timers, refreshTimer, autoSaveTimer, failureTimeout,
                        isHandlingFailure, tokenRetryCount, tokenStore, procs,
                        page, toasts, signOuts, storage>>]_vars

\* C6 witness: an online event arrived while the failure is being handled.
C6_Witness ==
    /\ last.op = "online"
    /\ isHandlingFailure
    /\ Called(last, "refreshToken") /\ ~Called(last, "getSession")

\* C9 as claimed: at retry counts 1, 2 and 3 a retry is scheduled after
\* 1000, 2000 and 4000 ms.
C9_AsClaimed ==
    [][(RefreshSettled(last') /\ last'.arg.kind = "throw"
        /\ tokenRetryCount' \in {1, 2, 3}) =>
          \E t \in NewTimers :
             /\ t.kind = "retry"
             /\ t.delay = 1000 * 2 ^ (tokenRetryCount' - 1)]_vars

\* C9 amended: with base_delay = 1000 ms every retry is scheduled either at
\* retry count 1 after exactly 1000 ms or at retry count 2 after exactly
\* 2000 ms; at retry count 3 no retry is scheduled, so 4000 ms is never used.
C9_DelaysUsed ==
    /\ [](\A t \in Pending("retry") : t.delay \in {1000, 2000})
    /\ [][\A t \in NewTimers : t.kind = "retry" =>
            \/ tokenRetryCount' = 1 /\ t.delay = 1000 /\ t.due = now + 1000
            \/ tokenRetryCount' = 2 /\ t.delay = 2000 /\ t.due = now + 2000]_vars

\* C9 witness: the second retry is pending, due 2000 ms after it was scheduled.
C9_Witness ==
    /\ tokenRetryCount = 2
    /\ \E t \in Pending("retry") : t.delay = 2000 /\ t.due = now + 2000

\* C10: at most one periodic refresh timer is active, and it is the one the
\* manager holds the handle of.
C10_OnePeriodicTimer ==
    /\ Cardinality(Pending("refresh")) <= 1
    /\ \A t \in Pending("refresh") : t.id = refreshTimer

\* C10 witness: the cycle was started while a periodic timer was active; the
\* old timer was cancelled and one timer is active.
C10_Witness ==
    /\ last.op = "startTokenRefreshCycle"
    /\ Called(last, "clearInterval(refreshTimer)")
    /\ Cardinality(Pending("refresh")) = 1

DotCount(c) == Cardinality({i \in 1..Len(c) : c[i] = "."})
FirstDot(c) == CHOOSE i \in 1..Len(c) : c[i] = "." /\ \A j \in 1..(i - 1) : c[j] # "."
LastDot(c) == CHOOSE i \in 1..Len(c) : c[i] = "." /\ \A j \in (i + 1)..Len(c) : c[j] # "."
Middle(c) == SubSeq(c, FirstDot(c) + 1, LastDot(c) - 1)
ThreeNonEmptySegments(v) ==
    /\ v.t = "string"
    /\ DotCount(v.s) = 2
    /\ FirstDot(v.s) > 1 /\ LastDot(v.s) < Len(v.s)
    /\ Middle(v.s) # <<>>
Verdict == vResult # "none"

PayloadFields == {"sub", "iat", "exp"}

\* C8 as claimed: for three segments whose middle one decodes and parses, the
\* verdict is false when a field is missing and true whenever all three are
\* present, whatever their values; false when it does not decode or parse.
C8_AsClaimed ==
    (Verdict /\ vInput.t = "string" /\ DotCount(vInput.s) = 2) =>
        LET payload == ParsePayload(Middle(vInput.s)) IN
        /\ payload.kind = "thrown" => vResult = "false"
        /\ (payload.kind # "thrown" /\ ~(PayloadFields \subseteq payload.has)) =>
              vResult = "false"
        /\ (payload.kind # "thrown" /\ PayloadFields \subseteq payload.has) =>
              vResult = "true"

\* C8 amended: for three segments, the verdict is true exactly when the middle
\* one decodes and parses to an object in which subject, issuedAt and expiry
\* are all present with a truthy value; a missing field, a field that is 0
\* (an expiry or issuedAt of 0), a payload that is not an object and a
\* segment that does not decode or parse all give false.
C8_PresentAndTruthy ==
    (Verdict /\ vInput.t = "string" /\ DotCount(vInput.s) = 2) =>
        LET payload == ParsePayload(Middle(vInput.s)) IN
        vResult = "true" <=>
            /\ payload.kind = "object"
            /\ PayloadFields \subseteq payload.has
            /\ payload.exp # 0 /\ payload.iat # 0

\* C8 witness: a payload with all three fields and an expiry of 0 was rejected.
C8_Witness == vInput = Str(<<"h", ".", "Z", ".", "h">>) /\ vResult = "false"

NumCalls(l, c) == Cardinality({i \in 1..Len(l.calls) : l.calls[i] = c})
TimerIdentities(T) == {[id |-> t.id, kind |-> t.kind, delay |-> t.delay] : t \in T}
Handles == <<refreshTimer, autoSaveTimer, failureTimeout>>

\* C11 as claimed: at most one backoff-retry timer is pending at any time,
\* also when several refresh invocations fail while overlapping.
C11_AsClaimed == Cardinality(Pending("retry")) <= 1

\* C12 as claimed: under every interleaving of refreshes, failure handler
\* invocations and teardown calls, at most one failure-handling sequence is
\* active, at most one forced sign-out timer is pending, and the sign-out is
\* not issued twice.
C12_AsClaimed ==
    /\ FailureSeqs <= 1
    /\ Cardinality(Pending("signout")) <= 1
    /\ signOuts <= 1

\* the second half of C12 on its own: two forced sign-out timers pending
C12_TwoSignOutTimers == Cardinality(Pending("signout")) <= 1

\* the backup stored for the open design is a snapshot written by a tick
StoredByTick ==
    /\ editor.designId # 0 /\ editor.canvas # 0
    /\ storage[editor.designId] # <<>>
    /\ storage[editor.designId][1].designId = editor.designId
Serialized(l) == l.op = "autoSaveTick" /\ l.arg.kind # "toJSON"

\* C13 as claimed: a tick on a design whose backup an earlier tick stored
\* writes nothing when the serialized state equals the stored one; when it
\* differs it performs exactly one write and the backup then holds the new
\* state.
C13_AsClaimed ==
    [][(Serialized(last') /\ StoredByTick) =>
          IF storage[editor.designId][1].canvasData = editor.canvas
          THEN NumCalls(last', "setItem") = 0 /\ storage' = storage
          ELSE /\ NumCalls(last', "setItem") = 1
               /\ storage'[editor.designId][1].canvasData = editor.canvas]_vars

\* C13 amended: as claimed when neither the storage read nor the storage
\* write throws.  When the state differs and the storage read throws, the
\* tick writes nothing; when the storage write throws, the one write is
\* attempted and fails; in both cases the backup keeps the old state.
C13_WriteOnlyOnChange ==
    [][(Serialized(last') /\ StoredByTick) =>
          IF storage[editor.designId][1].canvasData = editor.canvas
          THEN NumCalls(last', "setItem") = 0 /\ storage' = storage
          ELSE CASE last'.arg.kind = "ok" ->
                      /\ NumCalls(last', "setItem") = 1
                      /\ storage'[editor.designId] =
                            <<[designId |-> editor.designId,
                               canvasData |-> editor.canvas,
                               timestamp |-> now]>>
                      /\ \A d \in DesignIds \ {editor.designId} :
                            storage'[d] = storage[d]
                 [] last'.arg.kind = "getItem" ->
                      NumCalls(last', "setItem") = 0 /\ storage' = storage
                 [] last'.arg.kind = "setItem" ->
                      NumCalls(last', "setItem") = 1 /\ storage' = storage]_vars

\* C13 witness: a later tick found the state equal to the backup an earlier
\* tick had stored, and wrote nothing.
C13_Witness ==
    /\ last.op = "autoSaveTick" /\ last.arg.kind = "ok"
    /\ StoredByTick
    /\ storage[editor.designId][1].canvasData = editor.canvas
    /\ storage[editor.designId][1].timestamp < now
    /\ Called(last, "getItem") /\ ~Called(last, "setItem")

C15_TickIsLocal ==
    [][last'.op = "autoSaveTick" =>
          /\ ~Called(last', "handleTokenFailure")
          /\ ~Called(last', "toast")
          /\ UNCHANGED <<isHandlingFailure, tokenRetryCount, tokenStore, procs,
                         toasts, signOuts, page, Handles>>
          /\ TimerIdentities(timers') = TimerIdentities(timers)
          /\ {t \in timers' : t.kind # "autosave"} =
                {t \in timers : t.kind # "autosave"}]_vars

\* C15 witness: a tick whose storage write threw.
C15_Witness ==
    /\ last.op = "autoSaveTick" /\ last.arg.kind = "setItem"
    /\ Called(last, "setItem")
    /\ editor.designId # 0 /\ storage[editor.designId] = <<>>

\* expiry (epoch seconds) carried by the provider's credentials
ExpiryOf(tok) ==
    CASE tok = TokLong -> 5000
      [] tok = TokShort -> 100
      [] tok = TokEdge -> 600
HasExpiry(tok) == tok \in {TokLong, TokShort, TokEdge}

\* C16: a handled activity event that finds a session records
\* lastActivity = now and invokes exactly one refresh when expiry - now is
\* below 600 seconds, none when it is 600 seconds or more.
C16_ActivityRefresh ==
    [][(last'.op = "activitySettle" /\ last'.arg.kind = "session"
        /\ HasExpiry(last'.arg.tok)) =>
          /\ tokenStore'.lastActivity = <<now>>
          /\ IF ExpiryOf(last'.arg.tok) - (now \div 1000) < 600
             THEN NumCalls(last', "refreshToken") = 1
             ELSE NumCalls(last', "refreshToken") = 0]_vars

\* C16 witness: the credential that expires at 600 s was seen later than
\* second 0 and the refresh was invoked.
C16_Witness ==
    /\ last.op = "activitySettle" /\ last.arg.tok = TokEdge
    /\ now >= 1000
    /\ tokenStore.lastActivity = <<now>>
    /\ Called(last, "refreshToken")

\* C17: a handled activity event that finds no session is a no-op: no
\* failure handler, no refresh, and the token store, the retry counter, the
\* failure flag, the timers and the pending refreshes are as before.
C17_AbsentIsNoOp ==
    [][(last'.op = "activitySettle" /\ last'.arg.kind = "absent") =>
          /\ last'.calls = <<>>
          /\ UNCHANGED <<tokenStore, tokenRetryCount, isHandlingFailure, timers,
                         Handles, toasts, signOuts, page, storage>>
          /\ RefreshProcs' = RefreshProcs
          /\ FailureSeqs' = FailureSeqs]_vars

\* C17 witness: the session fetch of an activity event settled with no
\* session.
C17_Witness ==
    /\ last.op = "activitySettle" /\ last.arg.kind = "absent"
    /\ tokenStore.lastActivity = <<>>

\* C18 as claimed: a visibility-restored and a connectivity-restored event
\* each invoke a refresh directly.
C18_AsClaimed ==
    [][last'.op \in {"visibility", "online"} => Called(last', "refreshToken")]_vars

\* C18 amended: a connectivity-restored event invokes a forced refresh
\* directly, whatever the remaining lifetime, and no activity handling; a
\* visibility-restored event runs the activity handling only (unthrottled)
\* and invokes no refresh of its own, a refresh following only from the
\* activity handling when less than 600 seconds remain.
C18_EnvironmentSignals ==
    /\ [][last'.op = "online" =>
            /\ NumCalls(last', "refreshToken") = 1
            /\ ~Called(last', "handleUserActivity")
            /\ NumProcs(Cur, {"activity"})' = NumProcs(Cur, {"activity"})
            /\ ~isHandlingFailure => RefreshProcs' = RefreshProcs + 1]_vars
    /\ [][last'.op = "visibility" =>
            /\ NumCalls(last', "handleUserActivity") = 1
            /\ ~Called(last', "refreshToken")
            /\ NumProcs(Cur, {"activity"})' = NumProcs(Cur, {"activity"}) + 1
            /\ RefreshProcs' = RefreshProcs]_vars

\* C18 witness: a visibility-restored event was handled without a refresh
\* being invoked.
C18_Witness ==
    /\ last.op = "visibility"
    /\ Called(last, "handleUserActivity") /\ ~Called(last, "refreshToken")

\* C19 as claimed: two occurrences of the activity handler run by the
\* throttle are never less than 1000 ms apart, whenever the trailing timer
\* fires.
C19_AsClaimed ==
    [][(last'.op \in {"signal", "throttleFire"}
        /\ Called(last', "handleUserActivity")
        /\ handledAt # <<>>) =>
          now' - handledAt[1] >= 1000]_vars

\* timers the manager counts among its Timer Handles
ManagerTimers == {t \in timers : t.kind \in {"refresh", "autosave", "retry", "signout"}}

\* C20 as claimed: an executing failure handler first cancels every active
\* timer, then awaits emergency cleanup, then surfaces the notification, then
\* schedules the sign-out for 3 seconds later; no sign-out is issued before
\* the notification.
C20_AsClaimed ==
    /\ [][(Called(last', "handleTokenFailure") /\ ~Called(last', "alreadyHandling")) =>
            /\ ManagerTimers' = {}
            /\ ~Called(last', "toast")
            /\ FailureSeqs' = FailureSeqs + 1]_vars
    /\ [][Called(last', "toast") =>
            /\ last'.op = "failureSettle" /\ last'.arg.kind = "ok"
            /\ \E t \in NewTimers : t.kind = "signout" /\ t.due = now + 3000]_vars
    /\ [][signOuts' # signOuts => toasts >= 1]_vars

\* the ordering of C20 without its first step
C20_OrderAfterCancelling ==
    /\ [][(Called(last', "handleTokenFailure") /\ ~Called(last', "alreadyHandling")) =>
            /\ {t \in ManagerTimers' : t.kind # "retry"} = {}
            /\ ~Called(last', "toast")
            /\ FailureSeqs' = FailureSeqs + 1]_vars
    /\ [][Called(last', "toast") =>
            /\ last'.op = "failureSettle" /\ last'.arg.kind = "ok"
            /\ \E t \in NewTimers : t.kind = "signout" /\ t.due = now + 3000]_vars
    /\ [][signOuts' # signOuts => toasts >= 1]_vars

----------------------------------------------------------------------------
(* Errors inside the failure handler, the failure flag, teardown.          *)

\* C21: an error inside the failure handler is not left to its caller: when
\* the forced sign-out rejects, the page navigates to the entry point, and
\* when the emergency cleanup rejects, the page is reloaded (no notification,
\* no sign-out timer); neither step changes the failure flag, which is still
\* set unless a teardown or a restart of the cycle came in between.
C21_HandlerErrorsFallBack ==
    /\ [][(last'.op = "signOutSettle" /\ last'.arg.kind = "throw") =>
            /\ page' = "navigated"
            /\ Called(last', "location.href")
            /\ isHandlingFailure' = isHandlingFailure
            /\ (~disturbed => isHandlingFailure')]_vars
    /\ [][(last'.op = "failureSettle" /\ last'.arg.kind = "throw") =>
            /\ page' = "reloaded"
            /\ Called(last', "reload")
            /\ toasts' = toasts /\ signOuts' = signOuts /\ NewTimers = {}
            /\ isHandlingFailure' = isHandlingFailure
            /\ (~disturbed => isHandlingFailure')]_vars

C21_Witness ==
    /\ last.op = "signOutSettle" /\ last.arg.kind = "throw"
    /\ page = "navigated" /\ isHandlingFailure

\* C22: once the failure flag is set, no step other than a teardown clears
\* it: not a refresh tick, a backoff retry, an interaction, visibility or
\* connectivity event, an auto-save tick, a restart of the cycle or the
\* completion of the sign-out.
C22_OnlyTeardownClearsFlag ==
    [][(isHandlingFailure /\ ~isHandlingFailure') => last'.op = "cleanup"]_vars

C22_Witness ==
    /\ last.op = "startTokenRefreshCycle" /\ isHandlingFailure
    /\ Called(last, "setInterval")

\* the timers a teardown is said to cancel
TeardownTimers ==
    {t \in timers : t.kind \in {"refresh", "autosave", "retry", "signout",
                                "initRetry", "throttle"}}

\* C25 as claimed: right after a teardown call no refresh timer, auto-save
\* timer, backoff retry, forced sign-out, initialization retry or throttle
\* trailing call is pending.
C25_AsClaimed == last.op = "cleanup" => TeardownTimers = {}

\* C26 as claimed: an interaction, visibility or connectivity event that
\* comes right after a teardown is not handled: no session fetch, no
\* lastActivity update, no refresh.
C26_AsClaimed ==
    [][(last.op = "cleanup" /\ last'.op \in {"signal", "visibility", "online"}) =>
          /\ last'.calls = <<>>
          /\ tokenStore' = tokenStore
          /\ procs' = procs]_vars

\* C27: a teardown called right after a teardown changes nothing: timers,
\* timer handles, failure flag, retry counter, token store and pending
\* operations are as the first call left them, and the page is still alive
\* (nothing was thrown).
C27_TeardownIdempotent ==
    [][(last.op = "cleanup" /\ last'.op = "cleanup") =>
          /\ timers' = timers
          /\ Handles' = Handles
          /\ isHandlingFailure' = isHandlingFailure
          /\ tokenRetryCount' = tokenRetryCount
          /\ tokenStore' = tokenStore
          /\ procs' = procs
          /\ page' = "alive"]_vars

C27_Witness ==
    /\ last.op = "cleanup" /\ last.arg = Repeated
    /\ disturbed /\ ~isHandlingFailure

\* C30 as claimed: after a teardown call currentToken, lastRefresh and
\* lastActivity are all absent.
C30_AsClaimed ==
    last.op = "cleanup" =>
        tokenStore = [currentToken |-> NoToken, lastRefresh |-> <<>>,
                      lastActivity |-> <<>>]

\* C29 as claimed: the retry counter is always between 0 and 3, also when
\* refreshes overlap and fail and when they fail again after a teardown.
C29_AsClaimed == tokenRetryCount \in 0..MaxTokenRetries

----------------------------------------------------------------------------
(* Initialization and the critical-failure path.                           *)

\* initialization retries made so far: every attempt installs one more set
\* of listeners, and the first attempt is not a retry
InitRetries == listeners - 1
InitProcs == NumProcs(Cur, {"init"})

\* C23 as claimed: the critical-failure path runs only after three retries,
\* the third one scheduled 3000 ms after the third failure.
C23_AsClaimed ==
    [][criticals' > criticals => InitRetries = 3]_vars

\* C23: a failed attempt that is not the third schedules one retry, k * 1000
\* ms after the k-th failure (1000 ms, 2000 ms) and leaves the critical path
\* alone; the third failed attempt schedules nothing and runs the critical
\* path. So there are at most two retries, the critical path runs at most
\* once, and once it ran no initialization attempt is pending or scheduled.
C23_TwoRetriesThenCritical ==
    /\ [][(last'.op = "initSettle" /\ last'.arg.kind = "throw") =>
            /\ initializationAttempts' = initializationAttempts + 1
            /\ IF initializationAttempts' < 3
               THEN /\ criticals' = criticals
                    /\ \E t \in NewTimers :
                         /\ t.kind = "initRetry"
                         /\ t.due = now + 1000 * initializationAttempts'
                         /\ \A u \in NewTimers : u = t
               ELSE /\ criticals' = criticals + 1
                    /\ InitRetries = 2
                    /\ \A t \in NewTimers : t.kind # "initRetry"]_vars
    /\ [][criticals >= 1 =>
            /\ criticals' = 1 /\ initializationAttempts' = 3
            /\ Pending("initRetry")' = {} /\ InitProcs' = 0
            /\ listeners' = listeners]_vars
    /\ [][last'.op = "initRetryFire" => InitRetries' = InitRetries + 1]_vars
    /\ [](InitRetries <= 2)

C23_Witness ==
    /\ criticals = 1 /\ InitRetries = 2 /\ initializationAttempts = 3
    /\ now >= 3000

\* C24 as claimed: once the critical-failure path has run no timer of the
\* manager is pending, and no interaction, visibility or connectivity event
\* causes a session fetch, a refresh, a write to the token store or a run of
\* the failure handler.
C24_AsClaimed ==
    /\ [](criticals >= 1 => TeardownTimers = {})
    /\ [][(criticals >= 1 /\ last'.op \in {"signal", "visibility", "online"}) =>
            /\ ~Called(last', "getSession")
            /\ ~Called(last', "refreshToken")
            /\ ~Called(last', "handleTokenFailure")
            /\ tokenStore' = tokenStore]_vars

\* C28 as claimed: the session-expired notification is produced only when
\* the retry counter has reached 3, the system-error notification only when
\* the initialization attempts are exhausted.
C28_AsClaimed ==
    /\ [][toasts' > toasts => tokenRetryCount' >= MaxTokenRetries]_vars
    /\ [][systemToasts' > systemToasts =>
            initializationAttempts' >= MaxInitAttempts]_vars

\* C28: the session-expired notification is produced exactly by a failure
\* handler whose emergency cleanup succeeded, whatever the retry counter is
\* (the handler also runs at once for a missing session or an invalid
\* credential); the system-error notification is produced only by the
\* initialization attempt that exhausts the attempts; no other step
\* produces a notification.
C28_NotificationSources ==
    /\ [][toasts' # toasts =>
            /\ toasts' = toasts + 1
            /\ last'.op = "failureSettle" /\ last'.arg.kind = "ok"
            /\ isHandlingFailure \/ disturbed]_vars
    /\ [][(last'.op = "failureSettle" /\ last'.arg.kind = "ok") =>
            toasts' = toasts + 1]_vars
    /\ [][systemToasts' # systemToasts =>
            /\ systemToasts' = systemToasts + 1
            /\ last'.op = "initSettle" /\ last'.arg.kind = "throw"
            /\ initializationAttempts' = MaxInitAttempts
            /\ criticals' = criticals + 1]_vars

C28_Witness ==
    /\ last.op = "failureSettle" /\ toasts >= 1
    /\ tokenRetryCount < MaxTokenRetries
    /\ initializationAttempts < MaxInitAttempts

\* the other sources of a notification happen too
C28_ExhaustedRetries ==
    ~(last.op = "failureSettle" /\ toasts >= 1 /\ tokenRetryCount = MaxTokenRetries)
C28_ExhaustedInit == systemToasts = 0

----------------------------------------------------------------------------
(* Overlapping refreshes, frames of the transitions.                       *)

\* the refresh suspended at its additional fetch that a step resumes
ResumedFresh ==
    {p \in BagToSet(procs) :
        /\ p.kind = "refresh" /\ p.pc = "getFresh"
        /\ CopiesIn(p, procs') < CopiesIn(p, procs)}

\* C31: refreshes are not serialised and the store keeps what was written
\* last: a refresh is started while another is in flight (unless the failure
\* flag is set), and every write to the store is made by a settling fetch of
\* a refresh and puts that refresh's own credential and the current time
\* there, whatever the store holds and whichever refresh fetched first.
C31_LastWriterWins ==
    /\ [][(last'.op \in {"startTokenRefreshCycle", "online"} /\ ~isHandlingFailure) =>
            RefreshProcs' = RefreshProcs + listeners]_vars
    /\ [][(last'.op = "activitySettle" /\ Called(last', "refreshToken")
                                       /\ ~isHandlingFailure) =>
            RefreshProcs' = RefreshProcs + 1]_vars
    /\ [][Called(last', "setCurrentToken") =>
            /\ last'.op \in {"refreshSettle", "freshSettle"}
            /\ tokenStore'.lastRefresh = <<now'>>
            /\ last'.op = "refreshSettle" =>
                  tokenStore'.currentToken = last'.arg.tok
            /\ last'.op = "freshSettle" =>
                  \E p \in ResumedFresh : tokenStore'.currentToken = p.tok]_vars
    /\ [][tokenStore'.currentToken # tokenStore.currentToken =>
            Called(last', "setCurrentToken")]_vars

\* C31 witness: two outside events have happened, a start of the cycle and an
\* activity event, so the two refreshes are the cycle's and the one the
\* activity handling started; the one that fetched first is suspended at its
\* additional fetch, holding its credential, while the other has just
\* written a different credential to the store.
C31_Witness ==
    /\ events = 2 /\ refreshTimer # 0 /\ tokenStore.lastActivity # <<>>
    /\ last.op = "refreshSettle" /\ Called(last, "setCurrentToken")
    /\ \E p \in BagToSet(procs) :
         /\ p.kind = "refresh" /\ p.pc = "getFresh"
         /\ p.tok # tokenStore.currentToken

\* a fetch of a refresh was rejected and a backoff retry was scheduled
BackoffStep ==
    /\ last'.op \in {"refreshSettle", "freshSettle"}
    /\ last'.arg.kind = "throw"
    /\ tokenRetryCount' < MaxTokenRetries

\* C32: a rejected fetch that schedules a backoff retry adds that one timer
\* and nothing else: the periodic refresh timer and the auto-save timer,
\* their handles and every other pending timer are as before, and the token
\* store is not written.
C32_BackoffFrame ==
    [][BackoffStep =>
          /\ \E t \in NewTimers : t.kind = "retry" /\ timers' = timers \cup {t}
          /\ Handles' = Handles
          /\ Pending("refresh")' = Pending("refresh")
          /\ Pending("autosave")' = Pending("autosave")
          /\ tokenStore' = tokenStore
          /\ ~Called(last', "setCurrentToken")]_vars

\* C32 witness: a retry was scheduled while the periodic timer was running
\* and the store held a credential.
C32_Witness ==
    /\ last.op \in {"refreshSettle", "freshSettle"} /\ last.arg.kind = "throw"
    /\ Pending("retry") # {}
    /\ refreshTimer # 0 /\ Pending("refresh") # {}
    /\ tokenStore.currentToken # NoToken

\* the same while the auto-save timer was running
C32_WithAutoSave ==
    /\ last.op \in {"refreshSettle", "freshSettle"} /\ last.arg.kind = "throw"
    /\ Pending("retry") # {}
    /\ autoSaveTimer # 0 /\ Pending("autosave") # {}

\* C33: an auto-save tick changes at most the snapshot stored under the key
\* of the active design and leaves the snapshot of every other design as it
\* was; no step deletes a stored snapshot; with no active design or no canvas
\* the tick makes no storage call and changes nothing in the storage.
C33_AutoSaveFrame ==
    /\ [][last'.op = "autoSaveTick" =>
            /\ \A k \in DesignIds :
                  k # editor.designId => storage'[k] = storage[k]
            /\ (editor.designId = 0 \/ editor.canvas = 0) =>
                  /\ storage' = storage
                  /\ last'.calls = <<>>]_vars
    /\ [][\A k \in DesignIds : storage[k] # <<>> => storage'[k] # <<>>]_vars
    /\ [][storage' # storage => last'.op = "autoSaveTick"]_vars

\* C33 witness: a tick has just written the snapshot of the active design
\* while another design's snapshot, written by an earlier tick, is stored.
C33_Witness ==
    /\ last.op = "autoSaveTick" /\ Called(last, "setItem")
    /\ StoredByTick /\ storage[editor.designId][1].timestamp = now
    /\ \E k \in DesignIds :
         /\ k # editor.designId /\ storage[k] # <<>>
         /\ storage[k][1].designId = k /\ storage[k][1].timestamp < now

\* a tick with no active design
C33_NothingToSave ==
    /\ last.op = "autoSaveTick" /\ editor.designId = 0
    /\ \E k \in DesignIds : storage[k] # <<>> /\ storage[k][1].designId = k

\* C34 as claimed: starting the cycle leaves a running auto-save timer
\* active and a pending forced sign-out pending.
C34_AsClaimed ==
    [][last'.op = "startTokenRefreshCycle" =>
          /\ Pending("autosave")' = Pending("autosave")
          /\ Pending("signout")' = Pending("signout")
          /\ autoSaveTimer' = autoSaveTimer
          /\ failureTimeout' = failureTimeout]_vars

\* C34: starting the cycle cancels every timer whose handle is kept: the
\* periodic refresh timer, the auto-save timer and the forced sign-out the
\* failure handler scheduled; it installs one periodic timer of 20 minutes
\* and starts one refresh, or none when the failure flag is set.  Pending
\* backoff retries and throttle calls, the store, the flag and the retry
\* counter are left alone.
C34_RestartCancelsKeptTimers ==
    [][last'.op = "startTokenRefreshCycle" =>
          /\ Pending("autosave")' = {} /\ autoSaveTimer' = 0
          /\ Pending("signout")' = {t \in Pending("signout") : t.id # failureTimeout}
          /\ failureTimeout' = 0
          /\ \E t \in timers' :
                /\ Pending("refresh")' = {t}
                /\ refreshTimer' = t.id
                /\ t.due = now + RefreshInterval
          /\ Pending("retry")' = Pending("retry")
          /\ Pending("throttle")' = Pending("throttle")
          /\ RefreshProcs' = RefreshProcs + (IF isHandlingFailure THEN 0 ELSE 1)
          /\ tokenStore' = tokenStore
          /\ isHandlingFailure' = isHandlingFailure
          /\ tokenRetryCount' = tokenRetryCount]_vars

\* C34 witness: the cycle was restarted after the failure handler had shown
\* the notification and scheduled the sign-out: the sign-out was not issued
\* and is no longer pending.
C34_Witness ==
    /\ last.op = "startTokenRefreshCycle"
    /\ isHandlingFailure /\ toasts = 1 /\ signOuts = 0
    /\ Pending("signout") = {} /\ Pending("autosave") = {}
    /\ Pending("refresh") # {}

\* a pending forced sign-out is no longer pending after the step
SignOutRemoved == \E t \in Pending("signout") : t \notin Pending("signout")'

C35_Cancelled ==
    /\ last.op = "cleanup" /\ Called(last, "clearTimeout(_failureTimeout)")
    /\ toasts = 1 /\ signOuts = 0 /\ Pending("signout") = {}

----------------------------------------------------------------------------
(* Validation of what a refresh returns, the flag and fetches in flight.   *)

\* C36 as claimed: every credential a refresh returns and every credential
\* held as currentToken has passed the validator.
C36_AsClaimed ==
    /\ last.ret # NoToken => validateTokenStructure(last.ret)
    /\ tokenStore.currentToken # NoToken =>
          validateTokenStructure(tokenStore.currentToken)

\* the part of C36 about the store alone
C36_StoredIsValidated ==
    tokenStore.currentToken # NoToken =>
        validateTokenStructure(tokenStore.currentToken)

SettleOps == {"refreshSettle", "freshSettle"}

\* C37 as claimed: while the failure flag is set no settling fetch of a
\* refresh writes the store or resets the retry counter.
C37_AsClaimed ==
    [][(isHandlingFailure /\ last'.op \in SettleOps) =>
          /\ ~Called(last', "setCurrentToken")
          /\ tokenStore' = tokenStore
          /\ (tokenRetryCount # 0 => tokenRetryCount' # 0)]_vars

\* C37: the failure flag is consulted only when a refresh is invoked.  A
\* refresh invoked while the flag is set fetches nothing, writes nothing and
\* leaves the retry counter; a refresh that was suspended at its fetch when
\* the flag was set goes on as without the flag: a valid credential with
\* enough lifetime left is written to the store and the counter is reset, a
\* valid credential about to expire leads to the additional fetch.
C37_FlagCheckedAtEntryOnly ==
    /\ [][(isHandlingFailure /\ Called(last', "refreshToken")) =>
            /\ ~Called(last', "getSession")
            /\ RefreshProcs' = RefreshProcs
            /\ tokenStore'.currentToken = tokenStore.currentToken
            /\ tokenStore'.lastRefresh = tokenStore.lastRefresh
            /\ tokenRetryCount' = tokenRetryCount]_vars
    /\ [][(last'.op = "refreshSettle" /\ last'.arg.kind = "session"
                                      /\ validateTokenStructure(last'.arg.tok)) =>
            \/ RefreshProcs' = RefreshProcs
            \/ /\ Called(last', "setCurrentToken")
               /\ tokenStore'.currentToken = last'.arg.tok
               /\ tokenStore'.lastRefresh = <<now'>>
               /\ tokenRetryCount' = 0]_vars

\* C37 witness: the failure flag was set by another refresh, no teardown
\* came, and a fetch issued before has settled and written the store.
C37_Witness ==
    /\ isHandlingFailure /\ ~disturbed
    /\ last.op = "refreshSettle" /\ Called(last, "setCurrentToken")
    /\ tokenStore.currentToken = last.arg.tok
    /\ tokenRetryCount = 0

\* C38 as claimed: when a teardown came while the failure handler was
\* suspended at the emergency cleanup (the flag is clear and the handler is
\* still suspended), the handler's continuation surfaces no notification and
\* schedules no sign-out.
C38_AsClaimed ==
    [][(~isHandlingFailure /\ FailureSeqs >= 1 /\ last'.op = "failureSettle") =>
          /\ toasts' = toasts
          /\ ~Called(last', "toast")
          /\ Pending("signout")' \subseteq Pending("signout")]_vars

\* C39 as claimed: whatever the number of initialization attempts, one set
\* of listeners and at most one auto-save timer are installed, and one
\* connectivity-restored event invokes at most one refresh.
C39_AsClaimed ==
    /\ listeners <= 1
    /\ Cardinality(Pending("autosave")) <= 1
    /\ last.op = "online" => NumCalls(last, "refreshToken") <= 1

\* the part of C39 about the auto-save timer alone
C39_OneAutoSaveTimer ==
    /\ Cardinality(Pending("autosave")) <= 1
    /\ \A t \in Pending("autosave") : t.id = autoSaveTimer

====
